---- MODULE Spec2Model ----
(***************************************************************************)
(* Nassim's Stitches - cart functionality (src/cart.js).                   *)
(*                                                                         *)
(* The model is the DOMContentLoaded handler of cart.js and the handlers   *)
(* it installs, run against a localStorage and a page.  One action is one  *)
(* handler run to completion (JavaScript is single threaded).  A handler   *)
(* that raises stops where it raises: what it wrote before stays written.  *)
(***************************************************************************)
EXTENDS Integers, Sequences, FiniteSets, TLC

VARIABLES
    storage,   \* localStorage: the two keys the script touches
    badge,     \* the .cart-count elements (all get the same text and display)
    table,     \* the cart page: tbody rows, totals, empty message, checkout button
    summary,   \* the checkout page: order summary, totals, place-order button
    gate,      \* the remove modal: one productIdToRemove per initCartPage closure,
               \* the click listeners of the three modal buttons, the modal's class
    toasts,    \* the children of #toast-container
    page,      \* which elements the current document has
    site,      \* the pages of the site that load this script
    thrown,    \* the last handler ended with an uncaught exception
    last       \* the last handler that ran, with its argument

vars == <<storage, badge, table, summary, gate, toasts, page, site, thrown, last>>

----------------------------------------------------------------------------
(* Bounds of the exploration. *)

MaxQty == 2        \* addToCart is not explored beyond this quantity
MaxClosures == 3   \* renders of a non-empty cart page with a modal per page load
MaxToasts == 2     \* toasts on screen at once

----------------------------------------------------------------------------
(* JavaScript values: a quantity is a number, NaN or null. *)

Num(n) == [k |-> "num", n |-> n]
JsNaN == [k |-> "nan", n |-> 0]
JsNull == [k |-> "null", n |-> 0]

\* ToNumber: null converts to 0.
ToNumber(v) == IF v.k = "null" THEN Num(0) ELSE v

JsAdd(a, b) ==
    LET x == ToNumber(a)
        y == ToNumber(b)
    IN  IF x.k = "nan" \/ y.k = "nan" THEN JsNaN ELSE Num(x.n + y.n)

JsMul(a, b) ==
    LET x == ToNumber(a)
        y == ToNumber(b)
    IN  IF x.k = "nan" \/ y.k = "nan" THEN JsNaN ELSE Num(x.n * y.n)

\* a < n and a > n: false whenever a is NaN.
JsLess(a, n) == LET x == ToNumber(a) IN x.k = "num" /\ x.n < n
JsGreater(a, n) == LET x == ToNumber(a) IN x.k = "num" /\ x.n > n

\* String(v), as in a template literal or textContent = v.
JsString(v) ==
    IF v.k = "num" THEN ToString(v.n) ELSE IF v.k = "nan" THEN "NaN" ELSE "null"

\* Number.prototype.toLocaleString() for a non-negative integer (en-US grouping).
Pad3(n) ==
    IF n < 10 THEN "00" \o ToString(n)
    ELSE IF n < 100 THEN "0" \o ToString(n) ELSE ToString(n)

RECURSIVE GroupDigits(_)
GroupDigits(n) ==
    IF n < 1000 THEN ToString(n)
    ELSE GroupDigits(n \div 1000) \o "," \o Pad3(n % 1000)

ToLocaleString(v) == IF v.k = "num" THEN GroupDigits(v.n) ELSE JsString(v)

\* parseInt(s, 10) of a string given as its characters: leading white space,
\* an optional sign, then the longest run of digits; NaN when there is none.
Digits == <<"0", "1", "2", "3", "4", "5", "6", "7", "8", "9">>
IsDigit(c) == \E d \in 1..10 : Digits[d] = c
DigitVal(c) == (CHOOSE d \in 1..10 : Digits[d] = c) - 1

RECURSIVE SkipSpaces(_)
SkipSpaces(s) == IF s # <<>> /\ Head(s) = " " THEN SkipSpaces(Tail(s)) ELSE s

RECURSIVE DigitRun(_, _)
DigitRun(s, acc) ==
    IF s # <<>> /\ IsDigit(Head(s))
    THEN DigitRun(Tail(s), acc * 10 + DigitVal(Head(s))) ELSE acc

ParseInt(s) ==
    LET t == SkipSpaces(s)
        neg == t # <<>> /\ Head(t) = "-"
        u == IF t # <<>> /\ Head(t) \in {"-", "+"} THEN Tail(t) ELSE t
    IN  IF u = <<>> \/ ~IsDigit(Head(u)) THEN JsNaN
        ELSE Num(IF neg THEN 0 - DigitRun(u, 0) ELSE DigitRun(u, 0))

----------------------------------------------------------------------------
(* Inputs. *)

\* Products passed to window.addToCart.  Two of them share the id p1 and
\* differ in name, price and image, as after a catalogue edit.
Products ==
    { [id |-> "p1", name |-> "Shirt", price |-> 1500, img |-> "shirt.jpg"],
      [id |-> "p1", name |-> "Shirt (new)", price |-> 1600, img |-> "shirt2.jpg"],
      [id |-> "p2", name |-> "Scarf", price |-> 800, img |-> "scarf.jpg"] }

Ids == {p.id : p \in Products}

\* What a user can leave in a quantity input: "", "abc", "0", "-5", "1", "2", "2.5".
QtyInputs ==
    { <<>>, <<"a", "b", "c">>, <<"0">>, <<"-", "5">>, <<"1">>, <<"2">>,
      <<"2", ".", "5">> }

\* productIdToRemove = null
NoTarget == "<null>"

----------------------------------------------------------------------------
(* localStorage and JSON. *)

\* The value under the key nassimStitchesCart: no key, text this script wrote
\* (the lines it serialised), or text that is not JSON.
AbsentKey == [tag |-> "absent", lines |-> <<>>]
GarbageText == [tag |-> "garbage", lines |-> <<>>]

\* JSON.stringify(cart): NaN is written as null.
StringifyLine(item) ==
    [item EXCEPT !.quantity = IF @.k = "nan" THEN JsNull ELSE @]

JSONStringify(cart) ==
    [tag |-> "text", lines |-> [i \in 1..Len(cart) |-> StringifyLine(cart[i])]]

\* getCart: JSON.parse(getItem(key)) || [].  JSON.parse(null) is null, so a
\* missing key gives []; text that is not JSON makes JSON.parse throw.
getCart(st) ==
    IF st.cart.tag = "garbage" THEN [ok |-> FALSE, cart |-> <<>>]
    ELSE [ok |-> TRUE, cart |-> st.cart.lines]

\* cart.find(item => item.id === id): the index of the first match, 0 if none.
FindIndex(cart, id) ==
    IF \E i \in 1..Len(cart) : cart[i].id = id
    THEN CHOOSE i \in 1..Len(cart) :
            cart[i].id = id /\ \A j \in 1..(i - 1) : cart[j].id # id
    ELSE 0

\* cart.filter(item => item.id !== id)
RECURSIVE FilterOut(_, _)
FilterOut(cart, id) ==
    IF cart = <<>> THEN <<>>
    ELSE IF Head(cart).id = id THEN FilterOut(Tail(cart), id)
    ELSE <<Head(cart)>> \o FilterOut(Tail(cart), id)

\* cart.reduce((sum, item) => sum + item.quantity, 0)
RECURSIVE TotalItems(_)
TotalItems(cart) ==
    IF cart = <<>> THEN Num(0)
    ELSE JsAdd(TotalItems(SubSeq(cart, 1, Len(cart) - 1)), cart[Len(cart)].quantity)

----------------------------------------------------------------------------
(* The state a handler works on, as one record. *)

World ==
    [storage |-> storage, badge |-> badge, table |-> table, summary |-> summary,
     gate |-> gate, toasts |-> toasts, page |-> page, thrown |-> FALSE]

Throw(w) == [w EXCEPT !.thrown = TRUE]

\* A faulty updateCartCount: it counts the lines, not the quantities.
updateCartCount_countsLines(w) ==
    LET c == getCart(w.storage)
        totalItems == Num(Len(c.cart))
    IN  IF ~c.ok THEN Throw(w)
        ELSE IF ~w.page.badges THEN w
        ELSE IF JsGreater(totalItems, 0)
        THEN [w EXCEPT !.badge = [text |-> JsString(totalItems), display |-> "block"]]
        ELSE [w EXCEPT !.badge.display = "none"]

\* updateCartCount (lines 61-73)
updateCartCount(w) ==
    LET c == getCart(w.storage)
        totalItems == TotalItems(c.cart)
    IN  IF ~c.ok THEN Throw(w)
        ELSE IF ~w.page.badges THEN w
        ELSE IF JsGreater(totalItems, 0)
        THEN [w EXCEPT !.badge = [text |-> JsString(totalItems), display |-> "block"]]
        ELSE [w EXCEPT !.badge.display = "none"]

\* saveCart (lines 53-56)
saveCart(w, cart) ==
    updateCartCount([w EXCEPT !.storage.cart = JSONStringify(cart)])

\* The toast element the const of line 83 refers to: an element not in the
\* container, named by the least number no child of the container has.
NewToast(ts) ==
    CHOOSE e \in 0..Len(ts) :
        /\ \A i \in 1..Len(ts) : ts[i].el # e
        /\ \A d \in 0..(e - 1) : \E i \in 1..Len(ts) : ts[i].el = d

\* showToast (lines 79-98): the element is appended; its two timers are the
\* actions ToastShowTimer and ToastHideTimer below.
showToast(w, message) ==
    IF ~w.page.toastContainer THEN w
    ELSE [w EXCEPT !.toasts = Append(@, [msg |-> message, phase |-> "added",
                                         el |-> NewToast(w.toasts)])]

\* The callback of the 10 ms timer of the i-th toast (lines 89-91).
showTimer(w, i) == [w EXCEPT !.toasts[i].phase = "show"]

\* A faulty 3000 ms callback: it drops the class and adds no listener.
hideTimer_noListener(w, i) == [w EXCEPT !.toasts[i].phase = "hidden"]

\* The callback of the 3000 ms timer of the i-th toast (lines 94-97): the
\* class goes and the transitionend listener is added.
hideTimer(w, i) == [w EXCEPT !.toasts[i].phase = "hiding"]

\* The transitionend listener of the i-th toast (line 96): toast.remove().
transitionend(w, i) ==
    [w EXCEPT !.toasts = SubSeq(@, 1, i - 1) \o SubSeq(@, i + 1, Len(@))]

\* The stylesheet animates a toast that loses the class 'show', so the
\* browser sends it a transitionend event.
ToastTransitionRuns == TRUE

----------------------------------------------------------------------------
(* The renderers. *)

\* A faulty line total: the unit price, whatever the quantity.
LineTotal_ignoresQuantity(item) == Num(item.price)

\* item.price * item.quantity
LineTotal(item) == JsMul(Num(item.price), item.quantity)

\* subtotal += itemTotal over the cart, from 0
RECURSIVE Subtotal(_)
Subtotal(cart) ==
    IF cart = <<>> THEN Num(0)
    ELSE JsAdd(Subtotal(SubSeq(cart, 1, Len(cart) - 1)), LineTotal(cart[Len(cart)]))

Ksh(v) == "Ksh " \o ToLocaleString(v)

\* One <tr> of the cart table (lines 215-224).
CartRow(item) ==
    [id |-> item.id, img |-> item.img, name |-> item.name,
     price |-> Ksh(Num(item.price)), quantity |-> JsString(item.quantity),
     subtotal |-> Ksh(LineTotal(item))]

\* One .summary-item of the order summary (lines 161-167).
SummaryItem(item) ==
    [label |-> item.name \o " &times; " \o JsString(item.quantity),
     amount |-> Ksh(LineTotal(item))]

\* summaryText (line 168)
RECURSIVE SummaryText(_)
SummaryText(cart) ==
    IF cart = <<>> THEN ""
    ELSE SummaryText(SubSeq(cart, 1, Len(cart) - 1))
         \o cart[Len(cart)].name \o " x " \o JsString(cart[Len(cart)].quantity)
         \o " - " \o Ksh(LineTotal(cart[Len(cart)])) \o "\n"

\* initCheckoutPage (lines 133-180)
initCheckoutPage(w) ==
    LET c == getCart(w.storage)
        subtotal == Subtotal(c.cart)
    IN  IF ~w.page.orderSummary THEN w
        ELSE IF ~c.ok THEN Throw(w)
        ELSE IF Len(c.cart) = 0
        THEN [w EXCEPT !.summary.items = <<>>,
                       !.summary.emptyNotice = TRUE,
                       !.summary.placeOrderDisabled = TRUE,
                       !.summary.subtotal = "Ksh 0",
                       !.summary.total = "Ksh 0"]
        ELSE [w EXCEPT !.summary =
                [items |-> [i \in 1..Len(c.cart) |-> SummaryItem(c.cart[i])],
                 emptyNotice |-> FALSE,
                 subtotal |-> Ksh(subtotal),
                 total |-> Ksh(subtotal),
                 orderText |-> "Order Total: " \o Ksh(subtotal) \o "\n\nItems:\n"
                               \o SummaryText(c.cart),
                 placeOrderDisabled |-> FALSE]]

\* The remove-modal part of initCartPage (lines 239-272): a new closure with
\* its own productIdToRemove; the rows' remove buttons call its
\* openRemoveModal; one more click listener on each of the three modal
\* buttons.  addEventListener on a missing button throws.
bindRemoveModal(w) ==
    LET k == Len(w.gate.pids) + 1
        w1 == [w EXCEPT !.gate.pids = Append(@, NoTarget), !.table.rowClosure = k]
        w2 == [w1 EXCEPT !.gate.confirmL = Append(@, k)]
        w3 == [w2 EXCEPT !.gate.cancelL = Append(@, k)]
        w4 == [w3 EXCEPT !.gate.closeL = Append(@, k)]
    IN  IF ~w.page.removeModal THEN w
        ELSE IF ~w.page.confirmBtn THEN Throw(w1)
        ELSE IF ~w.page.cancelBtn THEN Throw(w2)
        ELSE IF ~w.page.closeBtn THEN Throw(w3)
        ELSE w4

\* initCartPage (lines 185-273)
initCartPage(w) ==
    LET c == getCart(w.storage)
        subtotal == Subtotal(c.cart)
    IN  IF ~w.page.cartTable THEN w
        ELSE IF ~c.ok THEN Throw(w)
        ELSE IF Len(c.cart) = 0
        THEN [w EXCEPT !.table.rows = <<>>,
                       !.table.rowClosure = 0,
                       !.table.emptyMessage = "block",
                       !.table.totals = "none",
                       !.table.checkoutDisabled = TRUE]
        ELSE bindRemoveModal(
               [w EXCEPT !.table =
                  [rows |-> [i \in 1..Len(c.cart) |-> CartRow(c.cart[i])],
                   rowClosure |-> 0,
                   emptyMessage |-> "none",
                   totals |-> "block",
                   subtotal |-> Ksh(subtotal),
                   total |-> Ksh(subtotal),
                   checkoutDisabled |-> FALSE]])

----------------------------------------------------------------------------
(* The cart operations. *)

\* A faulty addToCart: it never looks for an existing line.
addToCart_alwaysPushes(w, product) ==
    LET c == getCart(w.storage)
        cart == Append(c.cart,
                       [id |-> product.id, name |-> product.name,
                        price |-> product.price, img |-> product.img,
                        quantity |-> Num(1)])
        w1 == saveCart(w, cart)
    IN  IF ~c.ok THEN Throw(w)
        ELSE IF w1.thrown THEN w1
        ELSE showToast(w1, product.name \o " has been added to your cart!")

\* A faulty addToCart: an existing line is left as it is.
addToCart_noIncrement(w, product) ==
    LET c == getCart(w.storage)
        existingItem == FindIndex(c.cart, product.id)
        cart == IF existingItem # 0 THEN c.cart
                ELSE Append(c.cart,
                            [id |-> product.id, name |-> product.name,
                             price |-> product.price, img |-> product.img,
                             quantity |-> Num(1)])
        w1 == saveCart(w, cart)
    IN  IF ~c.ok THEN Throw(w)
        ELSE IF w1.thrown THEN w1
        ELSE showToast(w1, product.name \o " has been added to your cart!")

\* A faulty addToCart: a second add copies the product's fields over the line.
addToCart_overwritesFields(w, product) ==
    LET c == getCart(w.storage)
        existingItem == FindIndex(c.cart, product.id)
        cart == IF existingItem # 0
                THEN [c.cart EXCEPT ![existingItem] =
                        [id |-> product.id, name |-> product.name,
                         price |-> product.price, img |-> product.img,
                         quantity |-> JsAdd(@.quantity, Num(1))]]
                ELSE Append(c.cart,
                            [id |-> product.id, name |-> product.name,
                             price |-> product.price, img |-> product.img,
                             quantity |-> Num(1)])
        w1 == saveCart(w, cart)
    IN  IF ~c.ok THEN Throw(w)
        ELSE IF w1.thrown THEN w1
        ELSE showToast(w1, product.name \o " has been added to your cart!")

\* A faulty addToCart: a new line goes to the front of the cart.
addToCart_prepends(w, product) ==
    LET c == getCart(w.storage)
        existingItem == FindIndex(c.cart, product.id)
        cart == IF existingItem # 0
                THEN [c.cart EXCEPT ![existingItem].quantity = JsAdd(@, Num(1))]
                ELSE <<[id |-> product.id, name |-> product.name,
                        price |-> product.price, img |-> product.img,
                        quantity |-> Num(1)]>> \o c.cart
        w1 == saveCart(w, cart)
    IN  IF ~c.ok THEN Throw(w)
        ELSE IF w1.thrown THEN w1
        ELSE showToast(w1, product.name \o " has been added to your cart!")

\* window.addToCart (lines 14-26)
addToCart(w, product) ==
    LET c == getCart(w.storage)
        existingItem == FindIndex(c.cart, product.id)
        cart == IF existingItem # 0
                THEN [c.cart EXCEPT ![existingItem].quantity = JsAdd(@, Num(1))]
                ELSE Append(c.cart,
                            [id |-> product.id, name |-> product.name,
                             price |-> product.price, img |-> product.img,
                             quantity |-> Num(1)])
        w1 == saveCart(w, cart)
    IN  IF ~c.ok THEN Throw(w)
        ELSE IF w1.thrown THEN w1
        ELSE showToast(w1, product.name \o " has been added to your cart!")

\* A faulty clearCart: it writes an empty array and forgets the order details.
clearCart_writesEmpty(w) ==
    updateCartCount([w EXCEPT !.storage.cart = JSONStringify(<<>>)])

\* window.clearCart (lines 31-35)
clearCart(w) ==
    updateCartCount(
        [w EXCEPT !.storage = [cart |-> AbsentKey, orderDetails |-> "absent"]])

\* A faulty updateQuantity: the removal test is quantity < 0.
updateQuantity_belowZero(w, productId, quantity) ==
    LET c == getCart(w.storage)
        item == FindIndex(c.cart, productId)
        cart == IF JsLess(quantity, 0) THEN FilterOut(c.cart, productId)
                ELSE IF item # 0 THEN [c.cart EXCEPT ![item].quantity = quantity]
                ELSE c.cart
        w1 == saveCart(w, cart)
    IN  IF ~c.ok THEN Throw(w)
        ELSE IF w1.thrown THEN w1
        ELSE initCartPage(w1)

\* A faulty updateQuantity: it renders the cart page before it saves.
updateQuantity_rendersBeforeSave(w, productId, quantity) ==
    LET c == getCart(w.storage)
        item == FindIndex(c.cart, productId)
        cart == IF JsLess(quantity, 1) THEN FilterOut(c.cart, productId)
                ELSE IF item # 0 THEN [c.cart EXCEPT ![item].quantity = quantity]
                ELSE c.cart
        w1 == initCartPage(w)
    IN  IF ~c.ok THEN Throw(w)
        ELSE IF w1.thrown THEN w1
        ELSE saveCart(w1, cart)

\* A faulty updateQuantity: it writes the quantity into every line.
updateQuantity_setsEveryLine(w, productId, quantity) ==
    LET c == getCart(w.storage)
        item == FindIndex(c.cart, productId)
        cart == IF JsLess(quantity, 1) THEN FilterOut(c.cart, productId)
                ELSE IF item # 0
                THEN [i \in 1..Len(c.cart) |-> [c.cart[i] EXCEPT !.quantity = quantity]]
                ELSE c.cart
        w1 == saveCart(w, cart)
    IN  IF ~c.ok THEN Throw(w)
        ELSE IF w1.thrown THEN w1
        ELSE initCartPage(w1)

\* updateQuantity (lines 105-117)
updateQuantity(w, productId, quantity) ==
    LET c == getCart(w.storage)
        item == FindIndex(c.cart, productId)
        cart == IF JsLess(quantity, 1) THEN FilterOut(c.cart, productId)
                ELSE IF item # 0 THEN [c.cart EXCEPT ![item].quantity = quantity]
                ELSE c.cart
        w1 == saveCart(w, cart)
    IN  IF ~c.ok THEN Throw(w)
        ELSE IF w1.thrown THEN w1
        ELSE initCartPage(w1)

\* removeItemFromCart (lines 123-129)
removeItemFromCart(w, productId) ==
    LET c == getCart(w.storage)
        w1 == saveCart(w, FilterOut(c.cart, productId))
        w2 == initCartPage(w1)
    IN  IF ~c.ok THEN Throw(w)
        ELSE IF w1.thrown THEN w1
        ELSE IF w2.thrown THEN w2
        ELSE showToast(w2, "Item removed from cart.")

----------------------------------------------------------------------------
(* The modal's listeners. *)

\* closeRemoveModal of closure k (lines 253-256)
closeRemoveModal(w, k) ==
    [w EXCEPT !.gate.pids[k] = NoTarget, !.gate.show = FALSE]

\* A faulty remove button: it removes the line at once.
openRemoveModal_removesAtOnce(w, k, productId) ==
    removeItemFromCart(w, productId)

\* openRemoveModal of closure k (lines 248-251)
openRemoveModal(w, k, productId) ==
    [w EXCEPT !.gate.pids[k] = productId, !.gate.show = TRUE]

\* A faulty confirm listener: it closes the modal before it removes.
confirmListener_closesFirst(w, k) ==
    LET w1 == closeRemoveModal(w, k)
    IN  IF w.gate.pids[k] # NoTarget
        THEN removeItemFromCart(w1, w1.gate.pids[k]) ELSE w1

\* The confirm listener of closure k (lines 264-269).
confirmListener(w, k) ==
    LET w1 == IF w.gate.pids[k] # NoTarget
              THEN removeItemFromCart(w, w.gate.pids[k]) ELSE w
    IN  IF w1.thrown THEN w1 ELSE closeRemoveModal(w1, k)

\* A click on the confirm button: the listeners registered when the click is
\* dispatched run in registration order, each to its end; one that throws
\* does not stop the next; one added during the dispatch does not run.
RECURSIVE dispatchConfirm(_, _)
dispatchConfirm(w, listeners) ==
    IF listeners = <<>> THEN w
    ELSE LET r == confirmListener([w EXCEPT !.thrown = FALSE], Head(listeners))
         IN  dispatchConfirm([r EXCEPT !.thrown = r.thrown \/ w.thrown],
                             Tail(listeners))

\* A click on the cancel or the close button: closeRemoveModal of each closure.
RECURSIVE dispatchClose(_, _)
dispatchClose(w, listeners) ==
    IF listeners = <<>> THEN w
    ELSE dispatchClose(closeRemoveModal(w, Head(listeners)), Tail(listeners))

\* The pending removal target as the user sees it: the id of the remove
\* button clicked last and not yet confirmed or cancelled.  A click sets the
\* variable of the newest closure, so it is the newest non-null variable.
PendingTarget(g) ==
    IF \A k \in 1..Len(g.pids) : g.pids[k] = NoTarget THEN NoTarget
    ELSE g.pids[CHOOSE k \in 1..Len(g.pids) :
                    /\ g.pids[k] # NoTarget
                    /\ \A j \in (k + 1)..Len(g.pids) : g.pids[j] = NoTarget]

----------------------------------------------------------------------------
(* Page loads. *)

\* The document as served, before the script runs.
PristineBadge == [text |-> "", display |-> ""]
PristineTable ==
    [rows |-> <<>>, rowClosure |-> 0, emptyMessage |-> "", totals |-> "",
     subtotal |-> "", total |-> "", checkoutDisabled |-> FALSE]
PristineSummary ==
    [items |-> <<>>, emptyNotice |-> FALSE, subtotal |-> "", total |-> "",
     orderText |-> "", placeOrderDisabled |-> FALSE]
PristineGate ==
    [pids |-> <<>>, confirmL |-> <<>>, cancelL |-> <<>>, closeL |-> <<>>,
     show |-> FALSE]

Pristine(st, pg) ==
    [storage |-> st, badge |-> PristineBadge, table |-> PristineTable,
     summary |-> PristineSummary, gate |-> PristineGate, toasts |-> <<>>,
     page |-> pg, thrown |-> FALSE]

\* The initializations at the end of the DOMContentLoaded handler (lines 277-279).
Startup(w) ==
    LET w1 == updateCartCount(w)
        w2 == initCartPage(w1)
    IN  IF w1.thrown THEN w1
        ELSE IF w2.thrown THEN w2
        ELSE initCheckoutPage(w2)

----------------------------------------------------------------------------
(* Pages and initial states. *)

\* addButtons: the page has product controls that call window.addToCart.
NoElements ==
    [badges |-> FALSE, cartTable |-> FALSE, orderSummary |-> FALSE,
     removeModal |-> FALSE, confirmBtn |-> FALSE, cancelBtn |-> FALSE,
     closeBtn |-> FALSE, toastContainer |-> FALSE, addButtons |-> FALSE]

\* A catalogue page: the header badge, the toast container, add-to-cart buttons.
ProductPage ==
    [NoElements EXCEPT !.badges = TRUE, !.toastContainer = TRUE, !.addButtons = TRUE]

\* The cart page: badge, cart table, remove modal with its three buttons,
\* toast container.
CartPage ==
    [NoElements EXCEPT !.badges = TRUE, !.cartTable = TRUE, !.removeModal = TRUE,
                       !.confirmBtn = TRUE, !.cancelBtn = TRUE, !.closeBtn = TRUE,
                       !.toastContainer = TRUE]

\* The checkout page: badge and order summary.
CheckoutPage == [NoElements EXCEPT !.badges = TRUE, !.orderSummary = TRUE]

Pages == {ProductPage, CartPage, CheckoutPage}

\* localStorage at the first page load: no cart yet; an order-details
\* snapshot of an earlier order may be there.
InitialStorages == [cart : {AbsentKey}, orderDetails : {"absent", "snapshot"}]

\* What `last` records: the handler, the product id it was about (for a click
\* on a modal button: the pending target when it was clicked), and for a
\* quantity change the parsed quantity.
Handler(op, id, quantity) == [op |-> op, id |-> id, quantity |-> quantity]

\* The exploration stops at the bounds.
Bounded(w) ==
    /\ Len(w.gate.pids) <= MaxClosures
    /\ Len(w.toasts) <= MaxToasts
    /\ \A i \in 1..Len(w.storage.cart.lines) :
          JsLess(w.storage.cart.lines[i].quantity, MaxQty + 1)

Install(w, h) ==
    /\ Bounded(w)
    /\ storage' = w.storage
    /\ badge' = w.badge
    /\ table' = w.table
    /\ summary' = w.summary
    /\ gate' = w.gate
    /\ toasts' = w.toasts
    /\ page' = w.page
    /\ site' = site
    /\ thrown' = w.thrown
    /\ last' = h

InitOn(storages, pages) ==
    \E st \in storages, pg \in pages :
        LET w == Startup(Pristine(st, pg))
        IN  /\ storage = w.storage
            /\ badge = w.badge
            /\ table = w.table
            /\ summary = w.summary
            /\ gate = w.gate
            /\ toasts = w.toasts
            /\ page = w.page
            /\ site = pages
            /\ thrown = w.thrown
            /\ last = Handler("load", NoTarget, JsNull)

Init == InitOn(InitialStorages, Pages)

----------------------------------------------------------------------------
(* The handlers, one action each. *)

\* A page of the site is loaded (or the current one again): a fresh
\* document, the same localStorage, the DOMContentLoaded handler runs.
Navigate ==
    \E pg \in site :
        Install(Startup(Pristine(storage, pg)), Handler("load", NoTarget, JsNull))

\* A call of window.addToCart(product).
AddToCart ==
    \E product \in Products :
        /\ page.addButtons
        /\ Install(addToCart(World, product), Handler("addToCart", product.id, JsNull))

\* A call of window.clearCart().
ClearCart ==
    Install(clearCart(World), Handler("clearCart", NoTarget, JsNull))

\* The change listener of a row's quantity input (lines 233-236).
QuantityChange ==
    \E i \in 1..Len(table.rows), value \in QtyInputs :
        Install(updateQuantity(World, table.rows[i].id, ParseInt(value)),
                Handler("change", table.rows[i].id, ParseInt(value)))

\* The click listener of a row's remove button (lines 259-261).
RemoveClick ==
    \E i \in 1..Len(table.rows) :
        /\ table.rowClosure # 0
        /\ Install(openRemoveModal(World, table.rowClosure, table.rows[i].id),
                   Handler("removeClick", table.rows[i].id, JsNull))

\* A click on #confirm-remove-btn.
ConfirmClick ==
    /\ page.confirmBtn
    /\ Install(dispatchConfirm(World, gate.confirmL), Handler("confirm", PendingTarget(gate), JsNull))

\* A click on #cancel-remove-btn.
CancelClick ==
    /\ page.cancelBtn
    /\ Install(dispatchClose(World, gate.cancelL), Handler("cancel", PendingTarget(gate), JsNull))

\* A click on the modal's .close-button.
CloseClick ==
    /\ page.removeModal /\ page.closeBtn
    /\ Install(dispatchClose(World, gate.closeL), Handler("close", PendingTarget(gate), JsNull))

\* The toast elements a container can hold: NewToast names a new one by a
\* number below the number of toasts on screen.
Els == 0..(MaxToasts - 1)

\* The 10 ms timer of toast e (lines 89-91).  Timers of equal delay fire in
\* the order they were set.
ToastShowTimerOf(e) ==
    \E i \in 1..Len(toasts) :
        /\ toasts[i].el = e
        /\ toasts[i].phase = "added"
        /\ \A j \in 1..(i - 1) : toasts[j].phase # "added"
        /\ Install(showTimer(World, i), Handler("showTimer", NoTarget, JsNull))

ToastShowTimer == \E e \in Els : ToastShowTimerOf(e)

\* The 3000 ms timer of toast e (lines 94-97): it fires after the toast's own
\* 10 ms timer and after the 3000 ms timers of the toasts before it.
ToastHideTimerOf(e) ==
    \E i \in 1..Len(toasts) :
        /\ toasts[i].el = e
        /\ toasts[i].phase = "show"
        /\ \A j \in 1..(i - 1) : toasts[j].phase \notin {"added", "show"}
        /\ Install(hideTimer(World, i), Handler("hideTimer", NoTarget, JsNull))

ToastHideTimer == \E e \in Els : ToastHideTimerOf(e)

\* The transitionend event of toast e, once its listener is there (line 96).
ToastTransitionEndOf(e) ==
    \E i \in 1..Len(toasts) :
        /\ toasts[i].el = e
        /\ toasts[i].phase = "hiding"
        /\ ToastTransitionRuns
        /\ Install(transitionend(World, i),
                   Handler("transitionend", NoTarget, JsNull))

ToastTransitionEnd == \E e \in Els : ToastTransitionEndOf(e)

Next ==
    \/ Navigate
    \/ AddToCart
    \/ ClearCart
    \/ QuantityChange
    \/ RemoveClick
    \/ ConfirmClick
    \/ CancelClick
    \/ CloseClick
    \/ ToastShowTimer
    \/ ToastHideTimer
    \/ ToastTransitionEnd

Spec == Init /\ [][Next]_vars

\* The site that is the product page alone, where every toast timer set is
\* run by the event loop and every transition it starts comes to its end.
InitToast ==
    InitOn([cart : {AbsentKey}, orderDetails : {"absent"}], {ProductPage})

NextToast ==
    \/ Navigate
    \/ AddToCart
    \/ ClearCart
    \/ ToastShowTimer
    \/ ToastHideTimer
    \/ ToastTransitionEnd

ToastFairness ==
    \A e \in Els :
        /\ WF_vars(ToastShowTimerOf(e))
        /\ WF_vars(ToastHideTimerOf(e))
        /\ WF_vars(ToastTransitionEndOf(e))

SpecToast == InitToast /\ [][NextToast]_vars /\ ToastFairness

\* Pages that lack an anchor: a cart page without the removal dialog, a cart
\* page whose dialog has no close button, a page with none of the elements.
CartPageNoModal ==
    [CartPage EXCEPT !.removeModal = FALSE, !.confirmBtn = FALSE,
                     !.cancelBtn = FALSE, !.closeBtn = FALSE]

CartPageNoCloseBtn == [CartPage EXCEPT !.closeBtn = FALSE]

AnchorPages ==
    {ProductPage, CartPage, CartPageNoModal, CartPageNoCloseBtn, NoElements}

InitAnchors == InitOn(InitialStorages, AnchorPages)

SpecAnchors == InitAnchors /\ [][Next]_vars

\* The same site when the text under the cart key is not JSON at the first
\* page load.
CorruptStorages == [cart : {GarbageText}, orderDetails : {"absent", "snapshot"}]

InitCorrupt == InitOn(CorruptStorages, Pages)

SpecCorrupt == InitCorrupt /\ [][Next]_vars

----------------------------------------------------------------------------
(* Properties.                                                             *)

\* The persisted cart: what a load of the cart yields.
Lines == getCart(storage).cart

CountOf(lines, id) == Cardinality({i \in 1..Len(lines) : lines[i].id = id})
QuantityOf(lines, id) == lines[FindIndex(lines, id)].quantity
Without(lines, id) == SelectSeq(lines, LAMBDA l : l.id # id)

\* The sum of the quantities; a quantity that is no number counts as 0.
RECURSIVE QuantitySum(_)
QuantitySum(lines) ==
    IF lines = <<>> THEN 0
    ELSE (IF Head(lines).quantity.k = "num" THEN Head(lines).quantity.n ELSE 0)
         + QuantitySum(Tail(lines))

\* The sum of price x quantity; a quantity that is no number counts as 0.
RECURSIVE PriceSum(_)
PriceSum(lines) ==
    IF lines = <<>> THEN 0
    ELSE Head(lines).price
            * (IF Head(lines).quantity.k = "num" THEN Head(lines).quantity.n ELSE 0)
         + PriceSum(Tail(lines))

BadgeShows(lines) ==
    /\ badge.display = "none" <=> QuantitySum(lines) = 0
    /\ QuantitySum(lines) > 0 =>
          badge.display = "block" /\ badge.text = ToString(QuantitySum(lines))

TableShows(lines) ==
    /\ table.rows = [i \in 1..Len(lines) |-> CartRow(lines[i])]
    /\ IF lines = <<>>
       THEN table.emptyMessage = "block" /\ table.totals = "none"
            /\ table.checkoutDisabled
       ELSE table.emptyMessage = "none" /\ table.totals = "block"
            /\ table.subtotal = "Ksh " \o GroupDigits(PriceSum(lines))
            /\ table.total = table.subtotal
            /\ ~table.checkoutDisabled

SummaryShows(lines) ==
    /\ summary.items = [i \in 1..Len(lines) |-> SummaryItem(lines[i])]
    /\ summary.emptyNotice = (lines = <<>>)
    /\ summary.placeOrderDisabled = (lines = <<>>)
    /\ summary.subtotal = "Ksh " \o GroupDigits(PriceSum(lines))
    /\ summary.total = summary.subtotal

\* The last handler was a cart operation that changed or rewrote the cart.
Mutated ==
    \/ last.op \in {"addToCart", "clearCart", "change"}
    \/ last.op = "confirm" /\ last.id # NoTarget

\* The gate is Idle: no closure holds a target and the dialog is hidden.
Idle(g) == ~g.show /\ \A k \in 1..Len(g.pids) : g.pids[k] = NoTarget

\* C1: after each mutating operation every projection present on the page
\* (badge, cart table, order summary) shows the persisted cart.
C1_ProjectionsCurrent ==
    Mutated =>
        /\ page.badges => BadgeShows(Lines)
        /\ page.cartTable => TableShows(Lines)
        /\ page.orderSummary => SummaryShows(Lines)

\* C2: a click on a remove button opens the gate for that id and leaves
\* localStorage as it is; Cancel and Close leave localStorage as it is and
\* leave the gate Idle.
C2_RemovalOnlyAfterConfirm ==
    [][ /\ last'.op = "removeClick" =>
              /\ storage' = storage
              /\ gate'.show /\ PendingTarget(gate') = last'.id
        /\ last'.op \in {"cancel", "close"} =>
              /\ storage' = storage
              /\ Idle(gate') ]_vars

\* Cancel or Close was clicked with a target pending: its line is still there.
C2_Witness ==
    /\ last.op \in {"cancel", "close"}
    /\ last.id # NoTarget
    /\ CountOf(Lines, last.id) = 1
    /\ Idle(gate)

\* C3: a Confirm with a pending target removes the line of that target (the
\* one requested last) and no other line.
C3_ConfirmRemovesOnlyLastTarget ==
    [][ (last'.op = "confirm" /\ last'.id # NoTarget) =>
            getCart(storage').cart = Without(Lines, last'.id) ]_vars

\* C4: addToCart of an id with no line yields exactly one line of quantity 1;
\* addToCart of an id with one line of quantity n yields exactly one line of
\* quantity n + 1.  So N calls from no line yield one line of quantity N.
C4_AddSameIdNTimes ==
    [][ last'.op = "addToCart" =>
          LET id == last'.id
              new == getCart(storage').cart
          IN  /\ CountOf(Lines, id) = 0 =>
                    CountOf(new, id) = 1 /\ QuantityOf(new, id) = Num(1)
              /\ (CountOf(Lines, id) = 1 /\ QuantityOf(Lines, id).k = "num") =>
                    /\ CountOf(new, id) = 1
                    /\ QuantityOf(new, id) = Num(QuantityOf(Lines, id).n + 1) ]_vars

\* The second addToCart of an id: one line, quantity 2.
C4_Witness ==
    /\ last.op = "addToCart"
    /\ Len(Lines) = 1
    /\ QuantityOf(Lines, last.id) = Num(2)

\* C5: the persisted cart has at most one line per product id.
C5_OneLinePerId == \A id \in Ids : CountOf(Lines, id) <= 1

\* An id was added again while another line was in the cart.
C5_Witness ==
    /\ last.op = "addToCart"
    /\ Len(Lines) = 2
    /\ QuantityOf(Lines, last.id) = Num(2)

\* C6: every line of the persisted cart has an integer quantity >= 1.
C6_QuantitiesAtLeastOne ==
    \A i \in 1..Len(Lines) :
        Lines[i].quantity.k = "num" /\ Lines[i].quantity.n >= 1

\* C7: updateQuantity(id, q) with q < 1 removes the line of id and keeps the
\* others; updateQuantity(id, q) with q >= 1 and no line of id leaves the
\* persisted cart as it was.
C7_UpdateQuantityBelowOneOrAbsent ==
    [][ last'.op = "change" =>
          LET id == last'.id
              q == last'.quantity
              new == getCart(storage').cart
          IN  /\ (q.k = "num" /\ q.n < 1) =>
                    new = Without(Lines, id) /\ CountOf(new, id) = 0
              /\ (q.k = "num" /\ q.n >= 1 /\ CountOf(Lines, id) = 0) =>
                    new = Lines ]_vars

\* A quantity >= 1 was entered in a row whose line is no longer in the cart.
C7_Witness ==
    /\ last.op = "change"
    /\ last.quantity.k = "num" /\ last.quantity.n >= 1
    /\ CountOf(Lines, last.id) = 0

\* C8: the badge is hidden exactly when the quantities of the persisted cart
\* sum to 0, and when visible its text is that sum.
C8_BadgeIsQuantitySum == page.badges => BadgeShows(Lines)

\* The badge shows the sum over two lines.
C8_Witness ==
    /\ page.badges
    /\ Len(Lines) = 2
    /\ badge.display = "block"
    /\ badge.text = "3"

\* C9: after clearCart both keys are gone from localStorage and a load of the
\* cart yields the empty collection.
C9_ClearCartDeletesKeys ==
    last.op = "clearCart" =>
        /\ storage.cart = AbsentKey
        /\ storage.orderDetails = "absent"
        /\ getCart(storage).ok /\ getCart(storage).cart = <<>>

\* clearCart was called on the cart page while it showed lines.
C9_Witness == last.op = "clearCart" /\ table.rows # <<>>

\* The last handler rendered the cart page / the order summary from the
\* cart that is now persisted.
CartPageRendered ==
    /\ page.cartTable
    /\ \/ last.op \in {"load", "change"}
       \/ last.op = "confirm" /\ last.id # NoTarget

SummaryRendered == page.orderSummary /\ last.op = "load"

\* C10: a rendered cart page that displays totals and a rendered order
\* summary display a subtotal and a total that are equal, and equal to the
\* sum of price x quantity over the rendered cart ("Ksh 0" on the summary
\* of an empty cart).
C10_TotalsArePriceSum ==
    /\ (CartPageRendered /\ table.totals = "block") =>
          /\ table.subtotal = table.total
          /\ table.total = "Ksh " \o GroupDigits(PriceSum(Lines))
    /\ SummaryRendered =>
          /\ summary.subtotal = summary.total
          /\ summary.total = "Ksh " \o GroupDigits(PriceSum(Lines))

\* The order summary of a two-line cart: 2 x 1,500 + 800.
C10_Witness ==
    /\ SummaryRendered
    /\ Len(Lines) = 2
    /\ summary.total = "Ksh 3,800"

\* C11: with no cart key, or with text under it that is not a cart, a load
\* of the cart yields a collection and neither the startup nor a cart
\* operation ends with an error.
C11_UnparseableCartLoadsAsEmpty == getCart(storage).ok /\ ~thrown

\* C12: on a page with the order summary the place-order button is enabled
\* only if the persisted cart has a line.
C12_PlaceOrderOnlyWithLines ==
    (page.orderSummary /\ ~summary.placeOrderDisabled) => Lines # <<>>

\* C13: addToCart of a product whose id is in the cart adds 1 to the quantity
\* of that line and changes nothing else: the line keeps its stored name,
\* price and img, and every other line is as it was.
C13_ReAddChangesOnlyQuantity ==
    [][(last'.op = "addToCart" /\ FindIndex(Lines, last'.id) # 0) =>
        LET i == FindIndex(Lines, last'.id)
            after == getCart(storage').cart
        IN  /\ Len(after) = Len(Lines)
            /\ \A j \in 1..Len(Lines) :
                  IF j = i
                  THEN /\ after[j] = [Lines[j] EXCEPT !.quantity = after[j].quantity]
                       /\ Lines[j].quantity.k = "num" =>
                             after[j].quantity = Num(Lines[j].quantity.n + 1)
                  ELSE after[j] = Lines[j]]_vars

\* The product added last was named "Shirt (new)", and the line with its id
\* still has the name and the price of the first add, next to another line.
C13_Witness ==
    /\ last.op = "addToCart" /\ last.id = "p1"
    /\ toasts # <<>>
    /\ toasts[Len(toasts)].msg = "Shirt (new) has been added to your cart!"
    /\ Len(Lines) = 2
    /\ Lines[1].name = "Shirt" /\ Lines[1].price = 1500
    /\ Lines[1].quantity = Num(2)

\* The rows of the cart table are the given lines, and the empty state shows
\* if and only if there is no line.
RowsShow(lines) ==
    /\ table.rows = [i \in 1..Len(lines) |-> CartRow(lines[i])]
    /\ table.emptyMessage = "block" <=> lines = <<>>
    /\ table.totals = "none" <=> lines = <<>>
    /\ table.checkoutDisabled <=> lines = <<>>

\* C14: on a page with the cart table, once updateQuantity or
\* removeItemFromCart has returned, the rows of the table are the lines of the
\* persisted cart in their order with their quantities, and the empty-state
\* message shows (totals hidden, checkout disabled) exactly when the cart is
\* empty.
C14_TableFollowsPersistedCart ==
    (/\ page.cartTable /\ ~thrown
     /\ \/ last.op = "change"
        \/ last.op = "confirm" /\ last.id # NoTarget)
    => RowsShow(Lines)

\* A confirmed removal of the last line left the empty state on the table.
C14_Witness ==
    /\ last.op = "confirm" /\ last.id # NoTarget
    /\ page.cartTable /\ Lines = <<>>
    /\ table.rows = <<>> /\ table.emptyMessage = "block"

\* The targets the confirm listeners of a gate would remove.
PendingIds(g) == {g.pids[k] : k \in 1..Len(g.pids)} \ {NoTarget}

\* C15: updateQuantity(id, q) with q >= 1 on an id of the cart sets that
\* line's quantity to q and changes nothing else; updateQuantity and
\* removeItemFromCart leave every line of another id as it was, and leave the
\* order-details key alone.
C15_OtherLinesAndOrderDetailsKept ==
    [][LET after == getCart(storage').cart
           i == FindIndex(Lines, last'.id)
       IN  /\ last'.op \in {"change", "confirm"} =>
                 storage'.orderDetails = storage.orderDetails
           /\ last'.op = "change" =>
                 Without(after, last'.id) = Without(Lines, last'.id)
           /\ (last'.op = "change" /\ JsGreater(last'.quantity, 0) /\ i # 0) =>
                 after = [Lines EXCEPT ![i].quantity = last'.quantity]
           /\ last'.op = "confirm" =>
                 SelectSeq(after, LAMBDA l : l.id \notin PendingIds(gate))
                    = SelectSeq(Lines, LAMBDA l : l.id \notin PendingIds(gate))]_vars

\* A quantity was set to 2 next to a line of another product that still has
\* quantity 1, with an order-details snapshot in the storage.
C15_Witness ==
    /\ last.op = "change" /\ last.quantity = Num(2)
    /\ Len(Lines) = 2
    /\ QuantityOf(Lines, last.id) = Num(2)
    /\ \E j \in 1..2 : Lines[j].id # last.id /\ Lines[j].quantity = Num(1)
    /\ storage.orderDetails = "snapshot"

IdSeq(lines) == [i \in 1..Len(lines) |-> lines[i].id]

\* C16: the persisted cart is in first-add order: addToCart of an id that is
\* not in the cart appends the line at the end, and addToCart of an id that is
\* in it, updateQuantity and removeItemFromCart keep the lines that remain in
\* the order they had.
C16_FirstAddOrder ==
    [][LET after == getCart(storage').cart
       IN  /\ (last'.op = "addToCart" /\ FindIndex(Lines, last'.id) = 0) =>
                 /\ Len(after) = Len(Lines) + 1
                 /\ SubSeq(after, 1, Len(Lines)) = Lines
                 /\ after[Len(after)].id = last'.id
           /\ (\/ last'.op = "addToCart" /\ FindIndex(Lines, last'.id) # 0
               \/ last'.op \in {"change", "confirm"}) =>
                 IdSeq(after) = SelectSeq(IdSeq(Lines),
                                          LAMBDA id : CountOf(after, id) > 0)]_vars

\* The product added second is the second line.
C16_Witness ==
    /\ last.op = "addToCart" /\ last.id = "p1"
    /\ Len(Lines) = 2
    /\ Lines[1].id = "p2" /\ Lines[2].id = "p1"
    /\ Lines[2].quantity = Num(1)

\* C17: after every click on Confirm, Cancel or Close the gate is Idle: no
\* closure of any render holds a target and the dialog is hidden; and a
\* Confirm removes its target before it clears it, so the line of the target
\* is gone.
C17_GateIdleAfterModalButton ==
    last.op \in {"confirm", "cancel", "close"} =>
        /\ Idle(gate)
        /\ (last.op = "confirm" /\ last.id # NoTarget) =>
              CountOf(Lines, last.id) = 0

\* A Confirm with a target on a page rendered more than once, with a line
\* left in the cart.
C17_Witness ==
    /\ last.op = "confirm" /\ last.id # NoTarget
    /\ Len(gate.pids) >= 2
    /\ Lines # <<>>
    /\ Idle(gate)

\* C18: one click on Confirm calls removeItemFromCart at most once, whatever
\* the number of renders before it: at most one line goes and at most one
\* "Item removed from cart." toast comes; with no pending target nothing is
\* removed and the storage is as it was.
C18_ConfirmRemovesAtMostOnce ==
    [][last'.op = "confirm" =>
        /\ Len(toasts') <= Len(toasts) + 1
        /\ Len(Lines) - Len(getCart(storage').cart) <= 1
        /\ last'.id = NoTarget => (storage' = storage /\ toasts' = toasts)]_vars

\* C19: a renderer whose anchor is absent (the cart table, the order-summary
\* container, the badges, the removal dialog or one of its confirm, cancel and
\* close buttons) does nothing and raises no error.
C19_AbsentAnchorsAreSilent == ~thrown

\* The phase of toast e in a container, "gone" when it is not a child.
PhaseOf(ts, e) ==
    IF \E i \in 1..Len(ts) : ts[i].el = e
    THEN ts[CHOOSE i \in 1..Len(ts) : ts[i].el = e].phase
    ELSE "gone"

====
